---- MODULE Spec2Model ----
(***************************************************************************)
(* Model of sublime_tower.py: three Sublime Text commands that locate the  *)
(* git working tree of a file or side-bar entry and open it in Tower.      *)
(*                                                                         *)
(* Python strings are TLA+ strings.  An optional string (view.file_name()) *)
(* is a sequence of zero or one strings.  A function call that may raise   *)
(* is a record whose field "raised" names the exception ("none" when the   *)
(* call returned) and whose field "ret" is the repr of the returned value. *)
(* An external process is described by the outcome it would produce: how   *)
(* long it runs (seconds), its exit code and what it prints.               *)
(***************************************************************************)
EXTENDS Integers, Sequences, FiniteSets, TLC

VARIABLES ext, last, shown

vars == <<ext, last, shown>>

(***************************************************************************)
(* Bounds and the modelled environment                                     *)
(***************************************************************************)

\* Largest number of side-bar entries selected at once.
MaxSel == 2

\* timeout= of the two git queries and of the gittower spawn.
GitTimeout == 2
TowerTimeout == 5

\* The modelled filesystem: one directory and one regular file inside it.
Files == {"/r/s/a.txt"}
Dirs == {"/r/s"}
Entries == Files \cup Dirs

\* view.file_name(): None for an unsaved buffer, else the file's path.
None == <<>>
FileNames == {None} \cup {<<f>> : f \in Files}

RECURSIVE SeqsUpTo(_)
SeqsUpTo(n) ==
    IF n = 0 THEN {<<>>}
    ELSE LET shorter == SeqsUpTo(n - 1)
         IN shorter \cup {Append(s, e) : s \in {t \in shorter : Len(t) = n - 1}, e \in Entries}

\* paths / dirs handed to the side-bar commands.
Selections == SeqsUpTo(MaxSel)

Outcome(d, c, o) == [dur |-> d, code |-> c, out |-> o]

\* What `cd <path> && git rev-parse --is-inside-work-tree` may do.
DetectOutcomes ==
    { Outcome(1, 0, "true\n"), Outcome(1, 0, "\ttrue \r\n"), Outcome(1, 0, "True\n"),
      Outcome(1, 0, "false\n"), Outcome(1, 128, "fatal: not a git repository\n"),
      Outcome(1, 1, "true\n"), Outcome(3, 0, "true\n") }

\* What `cd <path> && git rev-parse --show-toplevel` may do.
ResolveOutcomes ==
    { Outcome(1, 0, "/r\r\n"), Outcome(1, 128, ""), Outcome(3, 0, "/r\n") }

\* What `gittower <path>` may do.
LaunchOutcomes ==
    { Outcome(1, 0, ""), Outcome(3, 0, ""), Outcome(1, 127, ""), Outcome(6, 0, "") }

ExtStates == [detect : DetectOutcomes, resolve : ResolveOutcomes, launch : LaunchOutcomes]

(***************************************************************************)
(* Library functions, by what they do                                      *)
(***************************************************************************)

\* Characters str.strip() removes: \t \n \x0b \f \r \x1c \x1d \x1e \x1f, space,
\* \x85, \xa0 and U+1680.  (The spaces from U+2000 up, which strip() removes
\* too, cannot be written in a string of this language.)
Whitespace ==
    {" ", "\t", "\n", "\r", "\f", "", "", "", "", "", "", " ", " "}

RECURSIVE lstrip(_)
lstrip(s) ==
    IF Len(s) > 0 /\ SubSeq(s, 1, 1) \in Whitespace
    THEN lstrip(SubSeq(s, 2, Len(s)))
    ELSE s

RECURSIVE rstrip(_)
rstrip(s) ==
    IF Len(s) > 0 /\ SubSeq(s, Len(s), Len(s)) \in Whitespace
    THEN rstrip(SubSeq(s, 1, Len(s) - 1))
    ELSE s

strip(s) == rstrip(lstrip(s))

\* 1-based index of the last "/" of p, 0 when there is none (p.rfind('/') + 1).
RECURSIVE rfindSlash(_, _)
rfindSlash(p, i) ==
    IF i = 0 THEN 0
    ELSE IF SubSeq(p, i, i) = "/" THEN i
    ELSE rfindSlash(p, i - 1)

RECURSIVE allSlashes(_)
allSlashes(s) ==
    IF Len(s) = 0 THEN TRUE
    ELSE SubSeq(s, 1, 1) = "/" /\ allSlashes(SubSeq(s, 2, Len(s)))

RECURSIVE rstripSlash(_)
rstripSlash(s) ==
    IF Len(s) > 0 /\ SubSeq(s, Len(s), Len(s)) = "/"
    THEN rstripSlash(SubSeq(s, 1, Len(s) - 1))
    ELSE s

\* os.path.dirname (posixpath).
dirname(p) ==
    LET head == SubSeq(p, 1, rfindSlash(p, Len(p)))
    IN IF Len(head) > 0 /\ ~allSlashes(head) THEN rstripSlash(head) ELSE head

\* os.path.isfile against the modelled filesystem.
isfile(p) == p \in Files

\* Text mode of universal_newlines=True: "\r\n" and "\r" are read as "\n".
RECURSIVE universal_newlines(_)
universal_newlines(s) ==
    IF Len(s) = 0 THEN s
    ELSE IF Len(s) >= 2 /\ SubSeq(s, 1, 2) = "\r\n"
    THEN "\n" \o universal_newlines(SubSeq(s, 3, Len(s)))
    ELSE IF SubSeq(s, 1, 1) = "\r"
    THEN "\n" \o universal_newlines(SubSeq(s, 2, Len(s)))
    ELSE SubSeq(s, 1, 1) \o universal_newlines(SubSeq(s, 2, Len(s)))

\* subprocess.check_output(cmd, shell=True, universal_newlines=text,
\* timeout=t) on a process that behaves as outcome o.
check_output(o, t, text) ==
    IF o.dur > t THEN [raised |-> "TimeoutExpired", output |-> ""]
    ELSE IF o.code # 0 THEN [raised |-> "CalledProcessError", output |-> ""]
    ELSE [raised |-> "none", output |-> IF text THEN universal_newlines(o.out) ELSE o.out]

\* repr of a Python bool.
repr(b) == IF b THEN "True" ELSE "False"

(***************************************************************************)
(* Module-level functions of sublime_tower.py                              *)
(***************************************************************************)

build_cmd_is_in_repo(path) ==
    "cd \"" \o path \o "\" && git rev-parse --is-inside-work-tree"

build_cmd_get_repo_root(path) ==
    "cd \"" \o path \o "\" && git rev-parse --show-toplevel"

build_cmd_open_in_tower(path) ==
    "gittower \"" \o path \o "\""

TowerCliMessage ==
    "Error: Tower CLI is not installed.\n\nEnable it at: Tower > Preferences... > Integration > Tower Command Line Utility"

UnsavedMessage == "Error: Cannot open an unsaved file in Tower."

\* The record of one call of a module-level function: the process it
\* spawned, what that process did, and how the call ended.
CallRec(fn, path, cmd, t, o, raised, ret, messages) ==
    [fn |-> fn, arg |-> path, cmd |-> cmd, timeout |-> t, outcome |-> o,
     raised |-> raised, ret |-> ret, messages |-> messages]

\* is_in_repo without its except clause: a non-zero exit propagates.
is_in_repo_NoExcept(path, e) ==
    LET cmd == build_cmd_is_in_repo(path)
        r == check_output(e.detect, GitTimeout, TRUE)
    IN IF r.raised = "none"
       THEN CallRec("is_in_repo", path, cmd, GitTimeout, e.detect, "none",
                    repr(strip(r.output) = "true"), <<>>)
       ELSE CallRec("is_in_repo", path, cmd, GitTimeout, e.detect, r.raised, "", <<>>)

is_in_repo(path, e) ==
    LET cmd == build_cmd_is_in_repo(path)
        r == check_output(e.detect, GitTimeout, TRUE)
    IN IF r.raised = "none"
       THEN CallRec("is_in_repo", path, cmd, GitTimeout, e.detect, "none",
                    repr(strip(r.output) = "true"), <<>>)
       ELSE IF r.raised = "CalledProcessError"
       THEN CallRec("is_in_repo", path, cmd, GitTimeout, e.detect, "none", "False", <<>>)
       ELSE CallRec("is_in_repo", path, cmd, GitTimeout, e.detect, r.raised, "", <<>>)

\* get_repo_root wrapped in a try/except that returns '' on failure.
get_repo_root_Masked(path, e) ==
    LET cmd == build_cmd_get_repo_root(path)
        r == check_output(e.resolve, GitTimeout, TRUE)
    IN IF r.raised = "none"
       THEN CallRec("get_repo_root", path, cmd, GitTimeout, e.resolve, "none",
                    strip(r.output), <<>>)
       ELSE CallRec("get_repo_root", path, cmd, GitTimeout, e.resolve, "none", "", <<>>)

get_repo_root(path, e) ==
    LET cmd == build_cmd_get_repo_root(path)
        r == check_output(e.resolve, GitTimeout, TRUE)
    IN IF r.raised = "none"
       THEN CallRec("get_repo_root", path, cmd, GitTimeout, e.resolve, "none",
                    strip(r.output), <<>>)
       ELSE CallRec("get_repo_root", path, cmd, GitTimeout, e.resolve, r.raised, "", <<>>)

open_in_tower(path, e) ==
    LET cmd == build_cmd_open_in_tower(path)
        r == check_output(e.launch, TowerTimeout, FALSE)
    IN IF r.raised = "none"
       THEN CallRec("open_in_tower", path, cmd, TowerTimeout, e.launch, "none", "None", <<>>)
       ELSE IF r.raised = "CalledProcessError"
       THEN CallRec("open_in_tower", path, cmd, TowerTimeout, e.launch, "none", "None",
                    <<TowerCliMessage>>)
       ELSE CallRec("open_in_tower", path, cmd, TowerTimeout, e.launch, r.raised, "", <<>>)

(***************************************************************************)
(* Command handlers                                                        *)
(***************************************************************************)

\* How a handler ended: the exception that escaped it (or "none"), the repr
\* of what it returned, the module-level calls it made in order, and the
\* messages shown with sublime.error_message.
Result(raised, ret, calls, messages) ==
    [raised |-> raised, ret |-> ret, calls |-> calls, messages |-> messages]

\* The shared body with open_in_tower(current_dir) in place of
\* open_in_tower(path).
open_repo_of_StartPath(current_dir, e) ==
    LET d == is_in_repo(current_dir, e)
        g == get_repo_root(current_dir, e)
        o == open_in_tower(current_dir, e)
    IN IF d.raised # "none" THEN Result(d.raised, "", <<d>>, <<>>)
       ELSE IF d.ret # "True" THEN Result("none", "None", <<d>>, <<>>)
       ELSE IF g.raised # "none" THEN Result(g.raised, "", <<d, g>>, <<>>)
       ELSE IF o.raised # "none" THEN Result(o.raised, "", <<d, g, o>>, o.messages)
       ELSE Result("none", "None", <<d, g, o>>, o.messages)

\* `if is_in_repo(current_dir): path = get_repo_root(current_dir);
\*  open_in_tower(path)`, the body shared by the two open commands.
open_repo_of(current_dir, e) ==
    LET d == is_in_repo(current_dir, e)
        g == get_repo_root(current_dir, e)
        o == open_in_tower(g.ret, e)
    IN IF d.raised # "none" THEN Result(d.raised, "", <<d>>, <<>>)
       ELSE IF d.ret # "True" THEN Result("none", "None", <<d>>, <<>>)
       ELSE IF g.raised # "none" THEN Result(g.raised, "", <<d, g>>, <<>>)
       ELSE IF o.raised # "none" THEN Result(o.raised, "", <<d, g, o>>, o.messages)
       ELSE Result("none", "None", <<d, g, o>>, o.messages)

\* `return is_in_repo(current_dir)` / `return not is_in_repo(current_dir)`.
visible_if(current_dir, e, negate) ==
    LET d == is_in_repo(current_dir, e)
    IN IF d.raised # "none" THEN Result(d.raised, "", <<d>>, <<>>)
       ELSE Result("none", repr((d.ret = "True") # negate), <<d>>, <<>>)

\* `if os.path.isfile(given_path): ... dirname ... else: given_path`.
normalize(given_path) ==
    IF isfile(given_path) THEN dirname(given_path) ELSE given_path

\* TowerOpenCommand.run with the error_message call dropped.
TowerOpenCommand_run_Silent(file_name, e) ==
    IF file_name = None \/ file_name[1] = ""
    THEN Result("none", "None", <<>>, <<>>)
    ELSE open_repo_of(dirname(file_name[1]), e)

TowerOpenCommand_run(file_name, e) ==
    IF file_name = None \/ file_name[1] = ""
    THEN Result("none", "None", <<>>, <<UnsavedMessage>>)
    ELSE open_repo_of(dirname(file_name[1]), e)

TowerOpenCommand_is_visible(file_name, e) ==
    IF file_name = None \/ file_name[1] = ""
    THEN Result("none", "False", <<>>, <<>>)
    ELSE visible_if(dirname(file_name[1]), e, FALSE)

TowerOpenFromSidebarCommand_run(paths, e) ==
    IF Len(paths) = 0
    THEN Result("IndexError", "", <<>>, <<>>)
    ELSE open_repo_of(normalize(paths[1]), e)

TowerOpenFromSidebarCommand_is_visible(paths, e) ==
    IF Len(paths) # 1
    THEN Result("none", "False", <<>>, <<>>)
    ELSE visible_if(normalize(paths[1]), e, FALSE)

\* The creation command's run copied from the open command's run.
TowerCreateNewRepositoryFromSidebarCommand_run_Gated(dirs, e) ==
    IF Len(dirs) = 0
    THEN Result("IndexError", "", <<>>, <<>>)
    ELSE open_repo_of(normalize(dirs[1]), e)

TowerCreateNewRepositoryFromSidebarCommand_run(dirs, e) ==
    IF Len(dirs) = 0
    THEN Result("IndexError", "", <<>>, <<>>)
    ELSE LET o == open_in_tower(dirs[1], e)
         IN IF o.raised # "none" THEN Result(o.raised, "", <<o>>, o.messages)
            ELSE Result("none", "None", <<o>>, o.messages)

\* The creation command's is_visible testing `len(dirs) == 0`.
TowerCreateNewRepositoryFromSidebarCommand_is_visible_AnyCount(dirs, e) ==
    IF Len(dirs) = 0
    THEN Result("none", "False", <<>>, <<>>)
    ELSE visible_if(normalize(dirs[1]), e, TRUE)

TowerCreateNewRepositoryFromSidebarCommand_is_visible(dirs, e) ==
    IF Len(dirs) # 1
    THEN Result("none", "False", <<>>, <<>>)
    ELSE visible_if(normalize(dirs[1]), e, TRUE)

(***************************************************************************)
(* State machine                                                           *)
(***************************************************************************)

OpenCmd == "TowerOpenCommand"
SidebarCmd == "TowerOpenFromSidebarCommand"
CreateCmd == "TowerCreateNewRepositoryFromSidebarCommand"

\* The latest handler invocation: which handler, on what argument, and how
\* it ended.
Invocation(cmd, method, arg, res) ==
    [cmd |-> cmd, method |-> method, arg |-> arg, raised |-> res.raised,
     ret |-> res.ret, calls |-> res.calls, messages |-> res.messages]

NoInvocation == Invocation("", "", <<>>, Result("none", "None", <<>>, <<>>))

\* The host shows a menu entry when its is_visible returned True and hides it
\* when it returned False.
Shown(cmd, res) ==
    IF res.raised # "none" THEN shown
    ELSE IF res.ret = "True" THEN shown \cup {cmd}
    ELSE shown \ {cmd}

Init ==
    /\ ext \in ExtStates
    /\ last = NoInvocation
    /\ shown = {}

\* The repository, git or Tower change outside the editor.
ExternalChange ==
    /\ \E e \in ExtStates :
           /\ e # ext
           /\ \/ e.resolve = ext.resolve /\ e.launch = ext.launch
              \/ e.detect = ext.detect /\ e.launch = ext.launch
              \/ e.detect = ext.detect /\ e.resolve = ext.resolve
           /\ ext' = e
    /\ UNCHANGED <<last, shown>>

OpenRun ==
    \E f \in FileNames :
        /\ last' = Invocation(OpenCmd, "run", f, TowerOpenCommand_run(f, ext))
        /\ UNCHANGED <<ext, shown>>

OpenIsVisible ==
    \E f \in FileNames :
        LET res == TowerOpenCommand_is_visible(f, ext)
        IN /\ last' = Invocation(OpenCmd, "is_visible", f, res)
           /\ shown' = Shown(OpenCmd, res)
           /\ UNCHANGED ext

SidebarRun ==
    \E p \in Selections :
        /\ last' = Invocation(SidebarCmd, "run", p, TowerOpenFromSidebarCommand_run(p, ext))
        /\ UNCHANGED <<ext, shown>>

SidebarIsVisible ==
    \E p \in Selections :
        LET res == TowerOpenFromSidebarCommand_is_visible(p, ext)
        IN /\ last' = Invocation(SidebarCmd, "is_visible", p, res)
           /\ shown' = Shown(SidebarCmd, res)
           /\ UNCHANGED ext

CreateRun ==
    \E p \in Selections :
        /\ last' = Invocation(CreateCmd, "run", p,
                              TowerCreateNewRepositoryFromSidebarCommand_run(p, ext))
        /\ UNCHANGED <<ext, shown>>

CreateIsVisible ==
    \E p \in Selections :
        LET res == TowerCreateNewRepositoryFromSidebarCommand_is_visible(p, ext)
        IN /\ last' = Invocation(CreateCmd, "is_visible", p, res)
           /\ shown' = Shown(CreateCmd, res)
           /\ UNCHANGED ext

Next ==
    \/ ExternalChange
    \/ OpenRun
    \/ OpenIsVisible
    \/ SidebarRun
    \/ SidebarIsVisible
    \/ CreateRun
    \/ CreateIsVisible

Spec == Init /\ [][Next]_vars

TypeOK ==
    /\ ext \in ExtStates
    /\ shown \subseteq {OpenCmd, SidebarCmd, CreateCmd}
    /\ last.raised \in {"none", "CalledProcessError", "TimeoutExpired", "IndexError"}
    /\ Len(last.calls) <= 3
    /\ Len(last.messages) <= 1

(***************************************************************************)
(* Properties                                                              *)
(***************************************************************************)

\* C1: is_in_repo never propagates an error: whatever the query does (exit 0
\* with any output, non-zero exit, timeout after 2 seconds) it returns a
\* boolean, and it returns True only for exit 0 with trimmed output "true".
C1_DetectionNeverRaises ==
    \A i \in 1..Len(last.calls) :
        LET c == last.calls[i]
        IN c.fn = "is_in_repo" =>
             /\ c.raised = "none"
             /\ c.ret \in {"True", "False"}
             /\ c.ret = "True" <=>
                  /\ c.outcome.dur <= GitTimeout
                  /\ c.outcome.code = 0
                  /\ c.outcome.out \in {"true\n", "\ttrue \r\n"}

\* C2: open_in_tower always returns normally: for exit 0, non-zero exit and
\* timeout after 5 seconds alike nothing is raised; a successful spawn shows
\* no message and a failed spawn shows exactly one guidance message.
C2_LaunchAlwaysReturns ==
    \A i \in 1..Len(last.calls) :
        LET c == last.calls[i]
            ok == c.outcome.dur <= TowerTimeout /\ c.outcome.code = 0
        IN c.fn = "open_in_tower" =>
             /\ c.raised = "none"
             /\ ok => c.messages = <<>>
             /\ ~ok => c.messages = <<TowerCliMessage>>

\* C3: get_repo_root does not mask failures: when the show-toplevel query
\* exits non-zero or times out the call raises instead of returning, and in
\* the two open commands' run the exception escapes the handler, open_in_tower
\* is not called and no message is shown.
C3_ResolutionFailureSurfaces ==
    \A i \in 1..Len(last.calls) :
        LET c == last.calls[i]
        IN (c.fn = "get_repo_root" /\ (c.outcome.dur > GitTimeout \/ c.outcome.code # 0)) =>
             /\ c.raised \in {"CalledProcessError", "TimeoutExpired"}
             /\ c.ret = ""
             /\ last.cmd \in {OpenCmd, SidebarCmd} /\ last.method = "run"
             /\ last.raised = c.raised
             /\ last.calls[1].fn = "is_in_repo" /\ last.calls[1].ret = "True"
             /\ \A j \in 1..Len(last.calls) : last.calls[j].fn # "open_in_tower"
             /\ last.messages = <<>>

\* C3 witness: an open command's run in which detection answered True and the
\* show-toplevel query then exited non-zero.
C3_Witness ==
    /\ last.cmd = OpenCmd /\ last.method = "run"
    /\ Len(last.calls) = 2
    /\ last.calls[1].ret = "True"
    /\ last.calls[2].fn = "get_repo_root"
    /\ last.calls[2].outcome.code # 0
    /\ last.raised = "CalledProcessError"

\* C4: the repo-creation command run on a single selected entry hands
\* open_in_tower the entry itself when it is a directory and its containing
\* directory when it is a file.
C4_CreateRunNormalizes ==
    (last.cmd = CreateCmd /\ last.method = "run" /\ Len(last.arg) = 1) =>
        /\ Len(last.calls) = 1
        /\ last.calls[1].fn = "open_in_tower"
        /\ last.calls[1].arg = (IF last.arg[1] \in Files THEN "/r/s" ELSE last.arg[1])

\* C5: running the repo-creation command never runs is_in_repo or
\* get_repo_root and, given a selected location, calls open_in_tower exactly
\* once, whatever the state of that location at that time.
C5_CreateRunUnconditional ==
    (last.cmd = CreateCmd /\ last.method = "run") =>
        /\ \A i \in 1..Len(last.calls) :
             last.calls[i].fn \notin {"is_in_repo", "get_repo_root"}
        /\ Len(last.arg) >= 1 =>
             /\ Len(last.calls) = 1
             /\ last.calls[1].fn = "open_in_tower"
             /\ last.calls[1].cmd = build_cmd_open_in_tower(last.arg[1])

\* C5 witness: the creation command was reported visible, the location has
\* since become a working tree, and the command ran and launched Tower.
C5_Witness ==
    /\ last.cmd = CreateCmd /\ last.method = "run"
    /\ CreateCmd \in shown
    /\ ext.detect = Outcome(1, 0, "true\n")
    /\ Len(last.calls) = 1
    /\ last.calls[1].fn = "open_in_tower"

\* C6: when the number of selected entries is not exactly 1, both side-bar
\* commands report not visible and spawn no process to decide it.
C6_MultiSelectionHidden ==
    (last.cmd \in {SidebarCmd, CreateCmd} /\ last.method = "is_visible" /\ Len(last.arg) # 1) =>
        /\ last.raised = "none"
        /\ last.ret = "False"
        /\ last.calls = <<>>

\* C6 witness: is_visible of the creation command asked about two entries.
C6_Witness ==
    /\ last.cmd = CreateCmd /\ last.method = "is_visible"
    /\ Len(last.arg) = 2
    /\ last.ret = "False"

\* C7: for exactly one selected entry and the same answer of the detection
\* query, the two side-bar commands are exact inverses: the open command is
\* visible iff the location is inside a working tree, the creation command
\* iff it is not, so exactly one of them is visible, for every outcome of the
\* detection query.
C7_ExactInverses ==
    (last.cmd = SidebarCmd /\ last.method = "is_visible" /\ Len(last.arg) = 1) =>
        LET seen == last.calls[1].outcome
            other == TowerCreateNewRepositoryFromSidebarCommand_is_visible(
                         last.arg, [ext EXCEPT !.detect = seen])
            inside == /\ seen.dur <= GitTimeout
                      /\ seen.code = 0
                      /\ seen.out \in {"true\n", "\ttrue \r\n"}
        IN /\ last.raised = "none" /\ other.raised = "none"
           /\ last.ret = "True" <=> inside
           /\ other.ret = "True" <=> ~inside
           /\ (last.ret = "True") # (other.ret = "True")

\* C8: with no saved file in the view, the active-file command is not
\* visible, and running it shows exactly one explanatory message and spawns
\* no process.
C8_UnsavedFile ==
    (last.cmd = OpenCmd /\ last.arg = None) =>
        /\ last.raised = "none"
        /\ last.calls = <<>>
        /\ last.method = "is_visible" => (last.ret = "False" /\ last.messages = <<>>)
        /\ last.method = "run" => last.messages = <<UnsavedMessage>>

\* C8 witness: the active-file command was run on an unsaved view.
C8_Witness ==
    /\ last.cmd = OpenCmd /\ last.method = "run"
    /\ last.arg = None
    /\ Len(last.messages) = 1

\* C9 as stated: in every run of any command and for every combination of
\* process outcomes, no failure escapes the handler and at most one message is
\* shown, and only for an unsaved file or a failed Tower spawn.
C9_NoFailureEscapes ==
    last.method = "run" =>
        /\ last.raised = "none"
        /\ Len(last.messages) <= 1
        /\ last.messages # <<>> =>
             \/ last.cmd = OpenCmd /\ last.arg = None
             \/ /\ Len(last.calls) >= 1
                /\ last.calls[Len(last.calls)].fn = "open_in_tower"
                /\ last.calls[Len(last.calls)].outcome.code # 0

\* C9 amended: in every run at most one message is shown, and only for an
\* unsaved file or a Tower spawn that exited non-zero; a failure escapes the
\* handler only when a side-bar command is run on an empty selection
\* (IndexError), root resolution failed or a process outlived its timeout.
C9_AtMostOneMessage ==
    last.method = "run" =>
        /\ Len(last.messages) <= 1
        /\ last.messages # <<>> =>
             \/ last.cmd = OpenCmd /\ last.arg = None /\ last.calls = <<>>
             \/ /\ Len(last.calls) >= 1
                /\ last.calls[Len(last.calls)].fn = "open_in_tower"
                /\ last.calls[Len(last.calls)].outcome.code # 0
                /\ last.calls[Len(last.calls)].outcome.dur <= TowerTimeout
        /\ last.raised = "IndexError" <=>
             (last.cmd \in {SidebarCmd, CreateCmd} /\ last.arg = <<>>)
        /\ last.raised \notin {"none", "IndexError"} =>
             /\ Len(last.calls) >= 1
             /\ LET c == last.calls[Len(last.calls)]
                IN \/ c.fn = "get_repo_root" /\ c.outcome.code # 0
                   \/ c.outcome.dur > c.timeout

\* C9 witness: a side-bar open whose Tower spawn exited non-zero: one message,
\* nothing raised.
C9_Witness ==
    /\ last.cmd = SidebarCmd /\ last.method = "run"
    /\ Len(last.calls) = 3
    /\ last.calls[3].outcome.code # 0
    /\ last.raised = "none"
    /\ last.messages = <<TowerCliMessage>>

\* C10: in the two open commands the steps run in the order detection,
\* resolution, launch: open_in_tower is called only after is_in_repo returned
\* True and get_repo_root returned in the same run, with exactly the root
\* get_repo_root returned; when detection returns False neither resolution
\* nor launch runs and no message is shown.
C10_DetectResolveLaunch ==
    (last.cmd \in {OpenCmd, SidebarCmd} /\ last.method = "run" /\ last.calls # <<>>) =>
        /\ last.calls[1].fn = "is_in_repo"
        /\ \A i \in 1..Len(last.calls) :
             /\ last.calls[i].fn = "get_repo_root" =>
                  /\ i = 2
                  /\ last.calls[1].raised = "none" /\ last.calls[1].ret = "True"
                  /\ last.calls[2].arg = last.calls[1].arg
             /\ last.calls[i].fn = "open_in_tower" =>
                  /\ i = 3
                  /\ last.calls[1].raised = "none" /\ last.calls[1].ret = "True"
                  /\ last.calls[2].fn = "get_repo_root" /\ last.calls[2].raised = "none"
                  /\ last.calls[2].ret = "/r"
                  /\ last.calls[3].arg = last.calls[2].ret
                  /\ last.calls[3].cmd = "gittower \"/r\""
        /\ (last.calls[1].raised = "none" /\ last.calls[1].ret = "False") =>
             /\ Len(last.calls) = 1
             /\ last.raised = "none"
             /\ last.messages = <<>>

\* C10 witness: the side-bar entry was reported visible and its run went
\* through detection, resolution and launch of the resolved root.
C10_Witness ==
    /\ last.cmd = SidebarCmd /\ last.method = "run"
    /\ SidebarCmd \in shown
    /\ Len(last.calls) = 3
    /\ last.calls[3].fn = "open_in_tower"
    /\ last.calls[3].arg = "/r"
    /\ last.calls[1].arg = "/r/s"
====
